---- MODULE Spec2Model ----
(***************************************************************************)
(* plottr/data/datadict.py: the DataDict store, its validation, its        *)
(* structural queries, its tabulation and its grid construction.           *)
(*                                                                         *)
(* A DataDict is an insertion-ordered dict.  It is modelled as a sequence  *)
(* of entries [n |-> field name, v |-> field dict], names unique.  A field *)
(* dict is a function whose domain is a subset of {"axes","unit","values"};*)
(* a key that is not in the domain is a key the Python dict lacks.         *)
(***************************************************************************)
EXTENDS Integers, Sequences, FiniteSets, TLC

VARIABLES
    self,     \* the DataDict the methods are called on
    call,     \* the last method call: [op |-> ..., arguments as passed]
    raised,   \* the exception type the last call ended with, or "none"
    msg,      \* the entries of the raised exception's message
    retval,   \* what the last call returned: [kind |-> "None"] or [kind |-> "value", val |-> ...]
    ret       \* get_grid's local dict `ret` when the last call was left

vars == <<self, call, raised, msg, retval, ret>>

----------------------------------------------------------------------------
(* Bounds of the model.                                                    *)

\* longest values sequence of a store of Init, and of a store after append
MaxLen == 2
\* most rows of a store of InitGrid
MaxRows == 4

None == [kind |-> "None"]
Value(v) == [kind |-> "value", val |-> v]

\* numpy's not-a-number marker; every other scalar of the model is >= 0
NaN == -1
isnan(a) == a = NaN

\* F(v), with v evaluated once: the local variable of a method
Bind(v, F(_)) == CHOOSE y \in {F(x) : x \in {v}} : TRUE

----------------------------------------------------------------------------
(* dict helpers                                                            *)

Range(s) == {s[i] : i \in DOMAIN s}

keys(dd) == {dd[i].n : i \in DOMAIN dd}

\* dd[k]
getitem(dd, k) == dd[CHOOSE i \in DOMAIN dd : dd[i].n = k].v

\* dd[k] = v for a key the dict already has: the position is kept
setitem(dd, k, v) == [i \in DOMAIN dd |-> IF dd[i].n = k THEN [n |-> k, v |-> v] ELSE dd[i]]

----------------------------------------------------------------------------
(* validate                                                                *)

AxisMsg(n, na) == [kind |-> "axis", n |-> n, na |-> na]
LengthMsg(n, len, nvals, nvalsrc) ==
    [kind |-> "length", n |-> n, len |-> len, nvals |-> nvals, nvalsrc |-> nvalsrc]

\* the axis loop left after the first axis
AxesMsgs_firstOnly(dd, n, axes, j) ==
    IF j > Len(axes) THEN <<>>
    ELSE IF axes[j] \notin keys(dd) THEN <<AxisMsg(n, axes[j])>> ELSE <<>>

\* lines 93-96: one message per axis of v['axes'] that is no key of the store
RECURSIVE AxesMsgs(_, _, _, _)
AxesMsgs(dd, n, axes, j) ==
    IF j > Len(axes) THEN <<>>
    ELSE (IF axes[j] \notin keys(dd) THEN <<AxisMsg(n, axes[j])>> ELSE <<>>)
         \o AxesMsgs(dd, n, axes, j + 1)

\* lines 93-104: the field dict with its missing keys set to their defaults
FillDefaults(v) == v @@ [axes |-> <<>>, unit |-> "", values |-> <<>>]

\* lines 92-111: the loop body for the i-th item; st is the loop's state
\* [dd, nvals, nvalsrc (None before the first item), msg]
ValidateStep(st, i) ==
    LET n == st.dd[i].n
        v == st.dd[i].v
        m1 == IF "axes" \in DOMAIN v THEN AxesMsgs(st.dd, n, v.axes, 1) ELSE <<>>
        first == st.nvalsrc = None
    IN  Bind(FillDefaults(v), LAMBDA w :
            [dd |-> setitem(st.dd, n, w),
             nvals |-> IF first THEN Len(w.values) ELSE st.nvals,
             nvalsrc |-> IF first THEN Value(n) ELSE st.nvalsrc,
             msg |-> st.msg \o m1 \o
                     (IF ~first /\ Len(w.values) # st.nvals
                      THEN <<LengthMsg(n, Len(w.values), st.nvals, st.nvalsrc.val)>>
                      ELSE <<>>)])

\* the field loop left at the first violation
RECURSIVE ValidateLoop_stopsAtFirst(_, _)
ValidateLoop_stopsAtFirst(st, i) ==
    IF i > Len(st.dd) \/ st.msg # <<>> THEN st
    ELSE Bind(ValidateStep(st, i), LAMBDA st2 : ValidateLoop_stopsAtFirst(st2, i + 1))

RECURSIVE ValidateLoop(_, _)
ValidateLoop(st, i) ==
    IF i > Len(st.dd) THEN st
    ELSE Bind(ValidateStep(st, i), LAMBDA st2 : ValidateLoop(st2, i + 1))

\* True returned from the default-filling branch only: None on a store that
\* has nothing to fill
validate_trueOnlyOnFill(dd) ==
    Bind(dd, LAMBDA dd0 :
    Bind(ValidateLoop([dd |-> dd0, nvals |-> 0, nvalsrc |-> None, msg |-> <<>>], 1), LAMBDA st :
        IF st.msg # <<>>
        THEN [dd |-> st.dd, raised |-> "ValueError", msg |-> st.msg, ret |-> None]
        ELSE [dd |-> st.dd, raised |-> "none", msg |-> <<>>,
              ret |-> IF st.dd # dd0 THEN Value(TRUE) ELSE None]))

\* lines 88-116: [dd |-> the store after the call, raised, msg, ret]
validate(dd) ==
    Bind(dd, LAMBDA dd0 :
    Bind(ValidateLoop([dd |-> dd0, nvals |-> 0, nvalsrc |-> None, msg |-> <<>>], 1), LAMBDA st :
        IF st.msg # <<>>
        THEN [dd |-> st.dd, raised |-> "ValueError", msg |-> st.msg, ret |-> None]
        ELSE [dd |-> st.dd, raised |-> "none", msg |-> <<>>, ret |-> Value(TRUE)]))

----------------------------------------------------------------------------
(* structure, label, dependents                                            *)

\* lines 62-67
structure(dd) ==
    LET r == validate(dd)
    IN  IF r.raised # "none" THEN r
        ELSE [r EXCEPT !.ret = Value([i \in DOMAIN r.dd |->
                 [n |-> r.dd[i].n,
                  v |-> [axes |-> r.dd[i].v.axes, unit |-> r.dd[i].v.unit]]])]

NoFieldMsg(name) == [kind |-> "nofield", n |-> name]

\* lines 69-78
label(dd, name) ==
    LET r == validate(dd)
    IN  IF r.raised # "none" THEN r
        ELSE IF name \notin keys(r.dd)
        THEN [r EXCEPT !.raised = "ValueError", !.msg = <<NoFieldMsg(name)>>, !.ret = None]
        ELSE LET unit == getitem(r.dd, name).unit
             IN  [r EXCEPT !.ret = Value(IF unit # "" THEN name \o " (" \o unit \o ")"
                                                      ELSE name)]

\* ret.insert(0, n) for ret.append(n)
RECURSIVE DependentsLoop_prepends(_, _)
DependentsLoop_prepends(dd, i) ==
    IF i > Len(dd) THEN <<>>
    ELSE DependentsLoop_prepends(dd, i + 1)
         \o (IF Len(dd[i].v.axes) # 0 THEN <<dd[i].n>> ELSE <<>>)

\* lines 82-85
RECURSIVE DependentsLoop(_, _)
DependentsLoop(dd, i) ==
    IF i > Len(dd) THEN <<>>
    ELSE LET v == dd[i].v
             axes == IF "axes" \in DOMAIN v THEN v.axes ELSE <<>>
         IN  (IF Len(axes) # 0 THEN <<dd[i].n>> ELSE <<>>) \o DependentsLoop(dd, i + 1)

\* lines 80-86
dependents(dd) ==
    LET r == validate(dd)
    IN  IF r.raised # "none" THEN r
        ELSE [r EXCEPT !.ret = Value(DependentsLoop(r.dd, 1))]

----------------------------------------------------------------------------
(* __add__ and append                                                      *)

\* == of two dicts: the same keys with equal values, whatever the order
DictEq(a, b) ==
    /\ keys(a) = keys(b)
    /\ \A k \in keys(a) : getitem(a, k) = getitem(b, k)

IncompatibleMsg == [kind |-> "incompatible"]

\* lines 40-52; newdata is validated by its own structure() call
__add__(dd, newdata) ==
    LET r == structure(dd)
        r2 == structure(newdata)
    IN  IF r.raised # "none" THEN r
        ELSE IF r2.raised # "none" THEN [r2 EXCEPT !.dd = r.dd]
        ELSE IF DictEq(r.ret.val, r2.ret.val)
        THEN [r EXCEPT !.ret = Value([i \in DOMAIN r.dd |->
                 [n |-> r.dd[i].n,
                  v |-> [axes |-> r.dd[i].v.axes, unit |-> r.dd[i].v.unit,
                         values |-> r.dd[i].v.values
                                    \o getitem(r2.dd, r.dd[i].n).values]]])]
        ELSE [r EXCEPT !.raised = "ValueError", !.msg = <<IncompatibleMsg>>, !.ret = None]

\* lines 54-60; there is no else branch: the call returns None either way
append(dd, newdata) ==
    LET r == structure(dd)
        r2 == structure(newdata)
    IN  IF r.raised # "none" THEN r
        ELSE IF r2.raised # "none" THEN [r2 EXCEPT !.dd = r.dd]
        ELSE IF DictEq(r.ret.val, r2.ret.val)
        THEN [r EXCEPT !.ret = None,
                       !.dd = [i \in DOMAIN r.dd |->
                                 [n |-> r.dd[i].n,
                                  v |-> [r.dd[i].v EXCEPT !.values =
                                            @ \o getitem(r2.dd, r.dd[i].n).values]]]]
        ELSE [r EXCEPT !.ret = None]

----------------------------------------------------------------------------
(* tabulation: _value_dict, to_dataframe, to_multiindex_dataframes         *)

\* lines 118-127: the dict name -> values, in the store's order
_value_dict(dd, use_units) ==
    LET r == validate(dd)
    IN  IF r.raised # "none" THEN r
        ELSE [r EXCEPT !.ret = Value([i \in DOMAIN r.dd |->
                 [n |-> IF use_units /\ r.dd[i].v.unit # ""
                        THEN r.dd[i].n \o " (" \o r.dd[i].v.unit \o ")"
                        ELSE r.dd[i].n,
                  v |-> r.dd[i].v.values]])]

\* lines 129-130: pandas' DataFrame of the value dict, one column per field
to_dataframe(dd) ==
    LET r == _value_dict(dd, FALSE)
    IN  IF r.raised # "none" THEN r
        ELSE [r EXCEPT !.ret = Value([columns |-> r.ret.val])]

\* lines 139-154: the data frame of the dependent dd[i]: its values under the
\* MultiIndex of the tuples zip(*axvals), the levels named after the axes
MultiIndexFrame(dd, i, use_units) ==
    LET n == dd[i].n
        v == dd[i].v
        axvals == [j \in DOMAIN v.axes |-> getitem(dd, v.axes[j]).values]
        axnames == [j \in DOMAIN v.axes |->
                      IF use_units /\ getitem(dd, v.axes[j]).unit # ""
                      THEN v.axes[j] \o " (" \o getitem(dd, v.axes[j]).unit \o ")"
                      ELSE v.axes[j]]
    IN  [names |-> axnames,
         index |-> [row \in DOMAIN v.values |-> [j \in DOMAIN v.axes |-> axvals[j][row]]],
         column |-> IF use_units /\ v.unit # "" THEN n \o " (" \o v.unit \o ")" ELSE n,
         values |-> v.values]

\* lines 135-155
RECURSIVE FramesLoop(_, _, _)
FramesLoop(dd, i, use_units) ==
    IF i > Len(dd) THEN <<>>
    ELSE (IF Len(dd[i].v.axes) = 0 THEN <<>>
          ELSE <<[n |-> dd[i].n, v |-> MultiIndexFrame(dd, i, use_units)]>>)
         \o FramesLoop(dd, i + 1, use_units)

\* the unit suffix written into the field's own axes list
to_multiindex_dataframes_renamesAxes(dd, use_units) ==
    Bind(validate(dd), LAMBDA r :
        IF r.raised # "none" THEN r
        ELSE [r EXCEPT !.ret = Value(FramesLoop(r.dd, 1, use_units)),
                       !.dd = [i \in DOMAIN r.dd |->
                                 [r.dd[i] EXCEPT !.v.axes =
                                    MultiIndexFrame(r.dd, i, use_units).names]]])

\* lines 132-157: the dict dfs, one data frame per field that has axes
to_multiindex_dataframes(dd, use_units) ==
    LET r == validate(dd)
    IN  IF r.raised # "none" THEN r
        ELSE [r EXCEPT !.ret = Value(FramesLoop(r.dd, 1, use_units))]

----------------------------------------------------------------------------
(* to_xarray: the data frame as a labelled array.  An array is a record    *)
(* [shape, data], data a function of the positions, which are the tuples   *)
(* p with p[j] \in 1..shape[j]; a masked array has a mask beside its data.  *)

Positions(shape) ==
    LET longest == CHOOSE m \in Range(shape) \cup {0} : \A j \in DOMAIN shape : shape[j] <= m
    IN  {p \in [DOMAIN shape -> 1..longest] : \A j \in DOMAIN shape : p[j] <= shape[j]}

\* a numpy array from a sequence
array(s) == [shape |-> <<Len(s)>>, data |-> [p \in Positions(<<Len(s)>>) |-> s[p[1]]]]

\* the values of an index level: those of S in ascending order, each once
RECURSIVE SortedSeq(_)
SortedSeq(S) ==
    IF S = {} THEN <<>>
    ELSE LET m == CHOOSE a \in S : \A b \in S : a <= b
         IN  <<m>> \o SortedSeq(S \ {m})

NonUniqueMsg == [kind |-> "nonunique"]
KeyErrorMsg(name) == [kind |-> "key", n |-> name]

\* lines 161-170: DataArray(df) has the dimensions dim_0 (the MultiIndex) and
\* dim_1 (the one column), neither the name of a field: dim_0 is unstacked
\* into one dimension per index level, with the level's sorted distinct
\* values as coordinates and NaN where no row has the combination, and dim_1
\* is squeezed away.  unstack raises ValueError when two rows have the same
\* index tuple.
unstack(df) ==
    LET rows == DOMAIN df.index
        coords == [j \in DOMAIN df.names |-> SortedSeq({df.index[i][j] : i \in rows})]
        shape == [j \in DOMAIN df.names |-> Len(coords[j])]
        RowsAt(p) == {i \in rows : \A j \in DOMAIN df.names : df.index[i][j] = coords[j][p[j]]}
    IN  IF \E i, k \in rows : i # k /\ df.index[i] = df.index[k]
        THEN [raised |-> "ValueError", msg |-> <<NonUniqueMsg>>]
        ELSE [raised |-> "none",
              arr |-> [dims |-> df.names,
                       coords |-> coords,
                       values |-> [shape |-> shape,
                                   data |-> [p \in Positions(shape) |->
                                               IF RowsAt(p) = {} THEN NaN
                                               ELSE df.values[CHOOSE i \in RowsAt(p) : TRUE]]]]]

\* lines 159-172
to_xarray(dd, name) ==
    Bind(to_multiindex_dataframes(dd, FALSE), LAMBDA r :
        IF r.raised # "none" THEN r
        ELSE IF name \notin keys(r.ret.val)
        THEN [r EXCEPT !.raised = "KeyError", !.msg = <<KeyErrorMsg(name)>>, !.ret = None]
        ELSE Bind(unstack(getitem(r.ret.val, name)), LAMBDA u :
                IF u.raised # "none"
                THEN [r EXCEPT !.raised = u.raised, !.msg = u.msg, !.ret = None]
                ELSE [r EXCEPT !.ret = Value(u.arr)]))

----------------------------------------------------------------------------
(* get_grid                                                                *)

ShapesMsg(idxn) == [kind |-> "shapes", n |-> idxn]

\* the condition negated: what is a number is masked
masked_where_notnan(a) == [shape |-> a.shape, data |-> a.data,
                           mask |-> [p \in DOMAIN a.data |-> ~isnan(a.data[p])]]

\* line 198: numpy.ma.masked_where(np.isnan(a), a)
masked_where_isnan(a) == [shape |-> a.shape, data |-> a.data,
                          mask |-> [p \in DOMAIN a.data |-> isnan(a.data[p])]]

\* lines 184-195: the loop over arr.indexes from its j-th dimension on;
\* g is [raised, msg, ret]
RECURSIVE IndexesLoop(_, _, _, _)
IndexesLoop(dd, arr, j, g) ==
    IF j > Len(arr.dims) \/ g.raised # "none" THEN g
    ELSE LET idxn == arr.dims[j]
             vals == array(arr.coords[j])
         IN  IF idxn \in DOMAIN g.ret /\ vals.shape # g.ret[idxn].values.shape
             THEN [g EXCEPT !.raised = "ValueError", !.msg = <<ShapesMsg(idxn)>>]
             ELSE IndexesLoop(dd, arr, j + 1,
                      [g EXCEPT !.ret = (idxn :> [values |-> vals,
                                                  unit |-> getitem(dd, idxn).unit]) @@ @])

\* line 183: the dict `ret` the loop body starts from
FreshRet(previous) == <<>>

\* lines 197-200
MaskNan(values, mask_nan) ==
    IF mask_nan /\ \E p \in DOMAIN values.data : isnan(values.data[p])
    THEN masked_where_isnan(values)
    ELSE values

\* lines 181-205: the loop body for the field n; st is [dd, raised, msg, ret]
GridStep(st, n, mask_nan) ==
    Bind(to_xarray(st.dd, n), LAMBDA r :
        IF r.raised # "none"
        THEN [dd |-> r.dd, raised |-> r.raised, msg |-> r.msg, ret |-> st.ret]
        ELSE Bind(IndexesLoop(r.dd, r.ret.val, 1,
                              [raised |-> "none", msg |-> <<>>, ret |-> FreshRet(st.ret)]),
                  LAMBDA g :
            IF g.raised # "none"
            THEN [dd |-> r.dd, raised |-> g.raised, msg |-> g.msg, ret |-> g.ret]
            ELSE [dd |-> r.dd, raised |-> "none", msg |-> <<>>,
                  ret |-> (n :> [values |-> MaskNan(r.ret.val.values, mask_nan),
                                 axes |-> getitem(r.dd, n).axes,
                                 unit |-> getitem(r.dd, n).unit]) @@ g.ret]))

\* lines 180-205
RECURSIVE GridLoop(_, _, _, _)
GridLoop(st, name, i, mask_nan) ==
    IF i > Len(name) \/ st.raised # "none" THEN st
    ELSE Bind(GridStep(st, name[i], mask_nan), LAMBDA st2 : GridLoop(st2, name, i + 1, mask_nan))

\* line 207: a bare return
GridResult(g) == None

\* lines 175-178: the list of names the loop runs over, as a validate result
GridNames(dd, name) ==
    IF name = None THEN dependents(dd)
    ELSE [dd |-> dd, raised |-> "none", msg |-> <<>>,
          ret |-> Value(IF name.kind = "str" THEN <<name.val>> ELSE name.val)]

\* lines 174-207; name is None, [kind |-> "str", val |-> a field name] or
\* [kind |-> "list", val |-> a sequence of field names].  The result has the
\* local dict as .grid beside .ret, the value returned.
get_grid(dd, name, mask_nan) ==
    Bind(GridNames(dd, name), LAMBDA d :
        IF d.raised # "none"
        THEN [dd |-> d.dd, raised |-> d.raised, msg |-> d.msg, ret |-> None, grid |-> <<>>]
        ELSE Bind(GridLoop([dd |-> d.dd, raised |-> "none", msg |-> <<>>, ret |-> <<>>],
                           d.ret.val, 1, mask_nan),
                  LAMBDA st :
            [dd |-> st.dd, raised |-> st.raised, msg |-> st.msg,
             ret |-> IF st.raised = "none" THEN GridResult(st.ret) ELSE None,
             grid |-> st.ret]))

----------------------------------------------------------------------------
(* The stores the model starts from.                                       *)

\* sequences over S of length at most n
SeqsUpTo(S, n) == UNION {[1..k -> S] : k \in 0..n}

FieldKeys == {"axes", "unit", "values"}

AxesChoices == {<<>>, <<"x">>, <<"x", "y">>}

\* a field dict that has the keys D
FieldDicts(Vals) ==
    {[k \in D |-> full[k]] :
        D \in SUBSET FieldKeys,
        full \in [axes : AxesChoices, unit : {"V"}, values : SeqsUpTo(Vals, MaxLen)]}

\* the keys of a store of Init, in the store's order
KeyOrders == {<<>>, <<"x">>, <<"d">>, <<"x", "d">>, <<"d", "x">>}

\* the stores with the keys ks, in that order
StoresWith(ks, Fields) ==
    {[i \in DOMAIN ks |-> [n |-> ks[i], v |-> fs[i]]] : fs \in [DOMAIN ks -> Fields]}

Stores == UNION {StoresWith(ks, FieldDicts({1})) : ks \in KeyOrders}

Init ==
    /\ self \in Stores
    /\ call = [op |-> "init"]
    /\ raised = "none"
    /\ msg = <<>>
    /\ retval = None
    /\ ret = <<>>

\* The stores of InitGrid: d is measured over the axes x and y, row by row;
\* its i-th value is 10 + i, or NaN in the first row.  A second dependent e,
\* when there is one, is measured over the same axes or over d.  Every store
\* has a row, and no field that serves as an axis has a NaN.
AxisVals == {0, 1}

GridField(axes, values) == [axes |-> axes, unit |-> "V", values |-> values]

GridStores ==
    {<<[n |-> "d", v |-> GridField(<<"x", "y">>, [i \in 1..rows |-> 10 + i])],
       [n |-> "x", v |-> GridField(<<>>, xs)],
       [n |-> "y", v |-> GridField(<<>>, ys)]>> :
        rows \in 1..MaxRows, xs \in SeqsUpTo(AxisVals, MaxRows), ys \in SeqsUpTo(AxisVals, MaxRows)}

InitGrid ==
    /\ \E dd \in {g \in GridStores : Len(g[2].v.values) = Len(g[1].v.values)
                                     /\ Len(g[3].v.values) = Len(g[1].v.values)},
          nan \in BOOLEAN, eaxes \in {<<>>, <<"d">>, <<"x", "y">>} :
          LET rows == Len(dd[1].v.values)
              d == IF nan /\ rows > 0
                   THEN [dd EXCEPT ![1].v.values[1] = NaN]
                   ELSE dd
          IN  /\ eaxes = <<"d">> => ~(nan /\ rows > 0)
              /\ self = IF eaxes = <<>> THEN d
                        ELSE <<d[1], [n |-> "e", v |-> GridField(eaxes, [i \in 1..rows |-> 20 + i])],
                               d[2], d[3]>>
    /\ call = [op |-> "init"]
    /\ raised = "none"
    /\ msg = <<>>
    /\ retval = None
    /\ ret = <<>>

----------------------------------------------------------------------------
(* One action per method call.                                             *)

\* the call c ended as r says, and left no grid
Returns(c, r) ==
    /\ call' = c
    /\ self' = r.dd
    /\ raised' = r.raised
    /\ msg' = r.msg
    /\ retval' = r.ret
    /\ ret' = <<>>

Validate == Returns([op |-> "validate"], validate(self))

Structure == Returns([op |-> "structure"], structure(self))

Label == \E name \in {"x", "y"} : Returns([op |-> "label", name |-> name], label(self, name))

Dependents == Returns([op |-> "dependents"], dependents(self))

\* the stores passed to __add__ and append
NewDatas ==
    {<<[n |-> "x", v |-> [axes |-> <<>>, unit |-> "V", values |-> <<2>>]]>>,
     <<[n |-> "x", v |-> [axes |-> <<>>, values |-> <<2>>]]>>,
     <<[n |-> "d", v |-> [axes |-> <<"x">>, unit |-> "V", values |-> <<2>>]],
       [n |-> "x", v |-> [axes |-> <<>>, unit |-> "V", values |-> <<3>>]]>>,
     <<[n |-> "x", v |-> [unit |-> "V", values |-> <<3>>]],
       [n |-> "d", v |-> [axes |-> <<"x">>, unit |-> "V", values |-> <<2>>]]>>}

AddData ==
    \E newdata \in NewDatas :
        Returns([op |-> "__add__", newdata |-> newdata], __add__(self, newdata))

\* self grows with every successful append: it is stopped at MaxLen values
AppendData ==
    \E newdata \in NewDatas :
        LET r == append(self, newdata)
        IN  /\ r.raised = "none" => \A i \in DOMAIN r.dd : Len(r.dd[i].v.values) <= MaxLen
            /\ Returns([op |-> "append", newdata |-> newdata], r)

ValueDict ==
    \E use_units \in BOOLEAN :
        Returns([op |-> "_value_dict", use_units |-> use_units], _value_dict(self, use_units))

ToDataframe == Returns([op |-> "to_dataframe"], to_dataframe(self))

ToMultiindexDataframes ==
    \E use_units \in BOOLEAN :
        Returns([op |-> "to_multiindex_dataframes", use_units |-> use_units],
                to_multiindex_dataframes(self, use_units))

ToXarray(names) ==
    \E name \in names : Returns([op |-> "to_xarray", name |-> name], to_xarray(self, name))

GetGrid(names) ==
    \E name \in names, mask_nan \in BOOLEAN :
      \E r \in {get_grid(self, name, mask_nan)} :
        /\ call' = [op |-> "get_grid", name |-> name, mask_nan |-> mask_nan]
        /\ self' = r.dd
        /\ raised' = r.raised
        /\ msg' = r.msg
        /\ retval' = r.ret
        /\ ret' = r.grid

Str(n) == [kind |-> "str", val |-> n]
List(l) == [kind |-> "list", val |-> l]

NameArgs == {None, Str("d"), Str("x"), List(<<"d", "x">>), List(<<>>)}

Next ==
    \/ Validate
    \/ Structure
    \/ Label
    \/ Dependents
    \/ AddData
    \/ AppendData
    \/ ValueDict
    \/ ToDataframe
    \/ ToMultiindexDataframes
    \/ ToXarray({"d", "x"})
    \/ GetGrid(NameArgs)

Spec == Init /\ [][Next]_vars

GridNameArgs == {None, Str("d"), Str("x"), List(<<"e", "d">>)}

NextGrid ==
    \/ ToXarray({"d", "x"})
    \/ GetGrid(GridNameArgs)

SpecGrid == InitGrid /\ [][NextGrid]_vars

----------------------------------------------------------------------------
(* What the properties speak of, stated without the methods' operators.    *)

\* a field's entry for a key, a missing key counted as its default
Axes(v) == IF "axes" \in DOMAIN v THEN v.axes ELSE <<>>
Unit(v) == IF "unit" \in DOMAIN v THEN v.unit ELSE ""
Vals(v) == IF "values" \in DOMAIN v THEN v.values ELSE <<>>

\* (a) every name listed in a field's axes is a key of the store
AxesRegistered(dd) ==
    \A i \in DOMAIN dd : \A j \in DOMAIN Axes(dd[i].v) : Axes(dd[i].v)[j] \in keys(dd)

\* (b) all values sequences have the same length
SameLengths(dd) ==
    \A i, k \in DOMAIN dd : Len(Vals(dd[i].v)) = Len(Vals(dd[k].v))

IsValid(dd) == AxesRegistered(dd) /\ SameLengths(dd)

\* the violations of a store: one per field and axis name that is no key, and
\* one per field whose length differs from that of the first field
Violations(dd) ==
    UNION {{AxisMsg(dd[i].n, a) : a \in {b \in Range(Axes(dd[i].v)) : b \notin keys(dd)}} :
           i \in DOMAIN dd}
    \cup {LengthMsg(dd[i].n, Len(Vals(dd[i].v)), Len(Vals(dd[1].v)), dd[1].n) :
           i \in {k \in DOMAIN dd : Len(Vals(dd[k].v)) # Len(Vals(dd[1].v))}}

\* C1: validate() returns True exactly on the stores in which every axis
\* name is a key and all values sequences have the same length (a missing
\* key counted as empty); on every other store it raises ValueError and
\* returns nothing.
C1_ValidateIffValid ==
    [][call'.op = "validate" =>
          IF IsValid(self)
          THEN raised' = "none" /\ retval' = Value(TRUE)
          ELSE raised' = "ValueError" /\ retval' = None]_vars

C1_Witness ==
    /\ call.op = "validate"
    /\ raised = "none"
    /\ Len(self) = 2
    /\ \E i \in DOMAIN self : Len(self[i].v.axes) > 0
    /\ Len(self[1].v.values) > 0

\* C2: the error validate() raises lists every violation of the store: each
\* (field, missing axis name) pair and each field whose length differs from
\* the reference length, and nothing else.
C2_AllViolationsListed ==
    [][(call'.op = "validate" /\ raised' = "ValueError") =>
          /\ Range(msg') = Violations(self)
          /\ Len(msg') >= Cardinality(Violations(self))]_vars

C2_Witness ==
    /\ call.op = "validate"
    /\ raised = "ValueError"
    /\ Len(msg) >= 3
    /\ \E i \in DOMAIN msg : msg[i].kind = "axis"
    /\ \E i \in DOMAIN msg : msg[i].kind = "length"

\* C3: on a store validate() has just returned True for, a second validate()
\* returns True again and leaves the store as it is.
C3_SecondValidateNoChange ==
    (call.op = "validate" /\ raised = "none") =>
        validate(self) = [dd |-> self, raised |-> "none", msg |-> <<>>, ret |-> Value(TRUE)]

C3_Witness ==
    /\ call.op = "validate"
    /\ raised = "none"
    /\ retval = Value(TRUE)
    /\ Len(self) = 2
    /\ \E i \in DOMAIN self : self[i].v.unit = ""

\* two stores have the same structure(): the same keys, and per key the
\* same axes and unit
SameStructure(a, b) ==
    /\ keys(a) = keys(b)
    /\ \A k \in keys(a) : /\ Axes(getitem(a, k)) = Axes(getitem(b, k))
                          /\ Unit(getitem(a, k)) = Unit(getitem(b, k))

\* C4: for valid stores A and B, A.append(B) and A + B succeed exactly when
\* the structures are equal, each field's values then being A's followed by
\* B's, and raise ValueError otherwise.
C4_ConcatIffSameStructure ==
    [][(call'.op \in {"append", "__add__"} /\ IsValid(self) /\ IsValid(call'.newdata)) =>
          IF SameStructure(self, call'.newdata)
          THEN /\ raised' = "none"
               /\ \A k \in keys(self) :
                     LET joined == Vals(getitem(self, k)) \o Vals(getitem(call'.newdata, k))
                     IN  IF call'.op = "append"
                         THEN getitem(self', k).values = joined
                         ELSE /\ retval'.kind = "value"
                              /\ getitem(retval'.val, k).values = joined
          ELSE raised' = "ValueError"]_vars

IsDependent(e) == Len(Axes(e.v)) # 0

\* C8: dependents() returns the names of the fields with non-empty axes, each
\* once, in the store's order.
C8_DependentsExact ==
    (call.op = "dependents" /\ raised = "none") =>
        LET deps == SelectSeq(self, IsDependent)
        IN  /\ retval.kind = "value"
            /\ retval.val = [i \in DOMAIN deps |-> deps[i].n]

C8_Witness ==
    /\ call.op = "dependents"
    /\ raised = "none"
    /\ Len(self) = 2
    /\ Len(retval.val) = 1
    /\ retval.val[1] = self[2].n

ReadOps == {"structure", "label", "dependents", "_value_dict", "to_dataframe",
            "to_multiindex_dataframes", "to_xarray", "get_grid"}

Defaults == [axes |-> <<>>, unit |-> "", values |-> <<>>]

\* b is a but for missing keys that now hold their defaults
OnlyDefaultsFilled(a, b) ==
    /\ Len(a) = Len(b)
    /\ \A i \in DOMAIN a :
          /\ b[i].n = a[i].n
          /\ DOMAIN a[i].v \subseteq DOMAIN b[i].v
          /\ DOMAIN b[i].v \subseteq FieldKeys
          /\ \A k \in DOMAIN b[i].v :
                b[i].v[k] = IF k \in DOMAIN a[i].v THEN a[i].v[k] ELSE Defaults[k]

\* C9: structure(), label(), dependents(), the tabulations and get_grid()
\* leave every field's axes, unit and values as they were and add or remove
\* no field; the one change they make is validate's: a missing key now holds
\* its default.
C9_QueriesOnlyFillDefaults ==
    [][call'.op \in ReadOps => OnlyDefaultsFilled(self, self')]_vars

C9_Witness ==
    /\ call.op = "get_grid"
    /\ raised = "none"
    /\ "d" \in DOMAIN ret
    /\ "axes" \in DOMAIN ret["d"]

----------------------------------------------------------------------------
(* get_grid: what the properties speak of                                  *)

\* the names a get_grid(name) call on a valid store runs over
Requested(name) ==
    IF name = None
    THEN LET deps == SelectSeq(self, IsDependent) IN [i \in DOMAIN deps |-> deps[i].n]
    ELSE IF name.kind = "str" THEN <<name.val>> ELSE name.val

\* the number of distinct values of the field a: the length of the
\* coordinate array of the axis a
Realized(a) == Cardinality(Range(Vals(getitem(self, a))))

\* the field n can be gridded: it has axes, and no two rows the same
\* combination of axis values
Griddable(n) ==
    /\ n \in keys(self)
    /\ IsDependent([v |-> getitem(self, n)])
    /\ LET axes == getitem(self, n).axes
           Row(i) == [j \in DOMAIN axes |-> getitem(self, axes[j]).values[i]]
       IN  \A i, k \in DOMAIN getitem(self, n).values : i # k => Row(i) # Row(k)

\* the shape of the entry gridding n records under the name k: n's grid
\* under n, an axis's coordinates under the axis
EntryShape(n, k) ==
    IF k = n THEN [j \in DOMAIN getitem(self, n).axes |-> Realized(getitem(self, n).axes[j])]
    ELSE <<Realized(k)>>

\* two requested fields, the later with an axis a that the earlier has an
\* entry for, of another shape than a's coordinates
ShapeConflict(names) ==
    \E i, j \in DOMAIN names : \E a \in Range(Axes(getitem(self, names[j]))) :
        /\ i < j
        /\ a = names[i] \/ a \in Range(Axes(getitem(self, names[i])))
        /\ EntryShape(names[i], a) # <<Realized(a)>>

\* C5: a get_grid call for two dependents that use one name for entries of
\* different shapes raises ValueError.
C5_ShapeConflictRaises ==
    (/\ call.op = "get_grid"
     /\ IsValid(self)
     /\ \A n \in Range(Requested(call.name)) : Griddable(n)
     /\ ShapeConflict(Requested(call.name)))
    => (raised = "ValueError" /\ \E a \in keys(self) : msg = <<ShapesMsg(a)>>)

\* C6: get_grid returns a mapping with, for every requested field, an entry
\* with its grid, its axes and its unit, and for each of its axes an entry
\* with the axis's coordinates and unit.
C6_GridReturnsMapping ==
    (call.op = "get_grid" /\ raised = "none") =>
        /\ retval.kind = "value"
        /\ \A n \in Range(Requested(call.name)) :
              /\ n \in DOMAIN retval.val
              /\ retval.val[n].axes = getitem(self, n).axes
              /\ retval.val[n].unit = getitem(self, n).unit
              /\ \A a \in Range(getitem(self, n).axes) :
                    a = n \/ (/\ a \in DOMAIN retval.val
                              /\ retval.val[a].unit = getitem(self, a).unit
                              /\ retval.val[a].values.shape = <<Realized(a)>>)

\* C10: get_grid for a field of a valid store that has no axes raises
\* nothing and makes no entry for the field.
C10_ZeroAxesFieldIsNoop ==
    (/\ call.op = "get_grid"
     /\ call.name.kind = "str"
     /\ IsValid(self)
     /\ call.name.val \in keys(self)
     /\ ~IsDependent([v |-> getitem(self, call.name.val)]))
    => (raised = "none" /\ call.name.val \notin DOMAIN ret)

----------------------------------------------------------------------------
(* The grid of d over x and y, in the stores of InitGrid.                  *)

Rows == DOMAIN getitem(self, "d").values
XY(i) == <<getitem(self, "x").values[i], getitem(self, "y").values[i]>>
Combos == {XY(i) : i \in Rows}
RealizedProduct == {XY(i)[1] : i \in Rows} \X {XY(i)[2] : i \in Rows}

EachOnce == \A i, k \in Rows : i # k => XY(i) # XY(k)
NoNaNValue == \A i \in Rows : ~isnan(getitem(self, "d").values[i])

\* every combination of the realized x and y values is in one row
FullProduct == EachOnce /\ Combos = RealizedProduct

\* every combination of the realized x and y values but c is in one row
OneMissing(c) == EachOnce /\ c \in RealizedProduct /\ Combos = RealizedProduct \ {c}

\* the rows are those of an input with every combination once, less the row of c
OneRemoved(c) ==
    /\ EachOnce
    /\ c \notin Combos
    /\ Combos \cup {c} = ({XY(i)[1] : i \in Rows} \cup {c[1]}) \X ({XY(i)[2] : i \in Rows} \cup {c[2]})

\* a get_grid call with masking has left d's grid in ret
GridOfD ==
    /\ call.op = "get_grid"
    /\ call.mask_nan
    /\ raised = "none"
    /\ "d" \in DOMAIN ret
    /\ "axes" \in DOMAIN ret["d"]
    /\ {"x", "y"} \subseteq DOMAIN ret

Cells == DOMAIN ret["d"].values.data
IsCellOf(p, c) ==
    /\ ret["x"].values.data[<<p[1]>>] = c[1]
    /\ ret["y"].values.data[<<p[2]>>] = c[2]
MaskedAt(p) == "mask" \in DOMAIN ret["d"].values /\ ret["d"].values.mask[p]
MaskedCells == {p \in Cells : MaskedAt(p)}

\* every row's value is in the cell of the row's combination, unmasked
CellsHoldRows ==
    \A i \in Rows : \E p \in Cells :
        /\ IsCellOf(p, XY(i))
        /\ ret["d"].values.data[p] = getitem(self, "d").values[i]
        /\ ~MaskedAt(p)

\* C7 as stated: with every combination in one row the grid has no masked
\* position and each cell holds its row's value; with one combination
\* removed from such an input the grid has one masked position, the cell of
\* the removed combination.
C7_MaskedExactlyWhereRemoved ==
    GridOfD =>
        /\ FullProduct => (MaskedCells = {} /\ CellsHoldRows)
        /\ \A c \in AxisVals \X AxisVals :
              OneRemoved(c) => /\ Cardinality(MaskedCells) = 1
                               /\ \A p \in MaskedCells : IsCellOf(p, c)
                               /\ CellsHoldRows

\* C7, amended: when no value of d is NaN, with every combination of the
\* realized x and y values in one row the grid has no masked position and
\* each cell holds its row's value; with every combination but one in one
\* row the grid has one masked position, the cell of the missing combination,
\* and the other cells hold their rows' values.
C7_MaskedExactlyAtGaps ==
    (GridOfD /\ NoNaNValue) =>
        /\ FullProduct => (MaskedCells = {} /\ CellsHoldRows)
        /\ \A c \in AxisVals \X AxisVals :
              OneMissing(c) => /\ Cardinality(MaskedCells) = 1
                               /\ \A p \in MaskedCells : IsCellOf(p, c)
                               /\ CellsHoldRows

C7_Witness ==
    /\ GridOfD
    /\ NoNaNValue
    /\ Cardinality(Rows) = 3
    /\ \E c \in AxisVals \X AxisVals : OneMissing(c)
    /\ Cardinality(MaskedCells) = 1

====
